---- MODULE Spec2Model ----
(***************************************************************************)
(* A model of nauvi, a builder and renderer of JavaScript modules.         *)
(*                                                                         *)
(* Strings are TLA+ strings; TLC treats them as sequences of characters,   *)
(* so Len, \o and SubSeq are the byte-level operations of the program's    *)
(* String type.  An Option<T> is a sequence of zero or one T.              *)
(*                                                                         *)
(* Three specifications share the definitions:                             *)
(*   Spec      the Module API (src/module.rs): building and rendering      *)
(*   SpecBlock the Block API (src/module/block.rs): blocks of any indent,  *)
(*             nested bottom-up                                            *)
(*   SpecStmt  Statement trees built bottom-up from converted values, and   *)
(*             Statement::generate                                         *)
(***************************************************************************)
EXTENDS Integers, Sequences, FiniteSets, TLC

VARIABLES
    module,      \* Spec: the Module (name, dependencies, main_block)
    block,       \* SpecBlock: the Block under construction
    value,       \* SpecStmt: the value handed to a conversion
    statement,   \* SpecStmt: Option of the Statement under construction
    call,        \* the operation last invoked: [op, args]
    pc,          \* "ready", or "panicked" once an operation has panicked
    code,        \* the String the last call returned if it rendered, else ""
    first_code,  \* Spec: what the first of those calls in a row returned
    renders,     \* Spec: generate_code_string calls made in a row just now
    sink         \* Spec: the output of the last call if it wrote to one

vars == <<module, block, value, statement, call, pc, code, first_code,
          renders, sink>>

-----------------------------------------------------------------------------
(* Bounds of the model *)

MaxStmts == 2      \* Spec: statements appended to the main block
MaxDeps == 2       \* Spec: dependencies appended to the module
MaxRenders == 2    \* Spec: generate_code_string calls in a row
MaxNodes == 3      \* SpecBlock: statements of a block, nested ones included
MaxIndent == 1     \* SpecBlock: largest indent given to Block::new
MaxAbs == 12       \* SpecStmt: the integers -MaxAbs..MaxAbs are converted
MaxDepth == 2      \* SpecStmt: statements wrapped around a converted value

(* Program constants *)

I32_MAX == 2147483647
I32_MIN == -I32_MAX - 1

-----------------------------------------------------------------------------
(* The data model: Statement, VarType, Block, Dependency *)

Raw(c) == [tag |-> "Raw", code |-> c]

Literal(v) == [tag |-> "Literal", value |-> v]

VarDecl(var_type, n, initializer) ==
    [tag |-> "VarDecl", var_type |-> var_type, name |-> n,
     initializer |-> initializer]

Binary(left, operator, right) ==
    [tag |-> "Binary", left |-> left, operator |-> operator, right |-> right]

BlockStatement(b) == [tag |-> "Block", block |-> b]

VarType == {"Let", "Const", "Var"}

None == <<>>

Some(x) == <<x>>

BlockNew(indent) == [indent |-> indent, statements |-> <<>>]

DependencyNew(imports, path) == [imports |-> imports, path |-> path]

ModuleCreate(n) ==
    [name |-> n, dependencies |-> <<>>, main_block |-> BlockNew(0)]

-----------------------------------------------------------------------------
(* Conversions into Statement.  A value is a &str, a String, an i32 or a   *)
(* Statement (every type converts into itself).  f32 is left out: its      *)
(* formatting is not integer arithmetic.                                   *)

StrValue(t) == [kind |-> "str", text |-> t]

StringValue(t) == [kind |-> "String", text |-> t]

I32Value(n) == [kind |-> "i32", n |-> n]

StatementValue(s) == [kind |-> "Statement", stmt |-> s]

Digit(d) == SubSeq("0123456789", d + 1, d + 1)

RECURSIVE NatDigits(_)
NatDigits(m) ==
    IF m < 10 THEN Digit(m) ELSE NatDigits(m \div 10) \o Digit(m % 10)

(* The digits of -n for n < 0, computed without negating n (i32::MIN has   *)
(* no negation in 32 bits; the program formats the magnitude as unsigned). *)
RECURSIVE NegDigits(_)
NegDigits(n) ==
    LET d == (10 - (n % 10)) % 10
        rest == (n + d) \div 10
    IN  IF rest = 0 THEN Digit(d) ELSE NegDigits(rest) \o Digit(d)

I32ToString(n) == IF n >= 0 THEN NatDigits(n) ELSE "-" \o NegDigits(n)

(* Mutant: text is wrapped in double quotes. *)
FromStr_DoubleQuotes(c) == Literal("\"" \o c \o "\"")

FromStr(c) == Literal("'" \o c \o "'")

FromString(c) == Literal("'" \o c \o "'")

FromI32(c) == Literal(I32ToString(c))

Into(v) ==
    CASE v.kind = "str" -> FromStr(v.text)
      [] v.kind = "String" -> FromString(v.text)
      [] v.kind = "i32" -> FromI32(v.n)
      [] v.kind = "Statement" -> v.stmt

-----------------------------------------------------------------------------
(* The macros *)

ImportMacro(imports, path) == DependencyNew(imports, path)

VarMacro(var_type, n, initializer) ==
    VarDecl(var_type, n,
            IF initializer = None THEN None ELSE Some(Into(initializer[1])))

BinaryMacro(operator, left, right) == Binary(Into(left), operator, Into(right))

-----------------------------------------------------------------------------
(* The generation engine *)

RECURSIVE Repeat(_, _)
Repeat(s, n) == IF n = 0 THEN "" ELSE s \o Repeat(s, n - 1)

VarTypeToken(var_type) ==
    CASE var_type = "Let" -> "let"
      [] var_type = "Const" -> "const"
      [] var_type = "Var" -> "var"

RECURSIVE Generate(_)
RECURSIVE BlockGenerateFrom(_, _, _)

(* Mutant: the newline separates the statements instead of ending each. *)
RECURSIVE BlockGenerateFrom_Separator(_, _, _)
BlockGenerateFrom_Separator(b, i, acc) ==
    IF i > Len(b.statements) THEN acc
    ELSE BlockGenerateFrom_Separator(b, i + 1,
            acc \o (IF i = 1 THEN "" ELSE "\n") \o Repeat("    ", b.indent)
                \o Generate(b.statements[i]))

(* Mutant: a binary expression of two leaves is left without parentheses. *)
Generate_BareLeaves(s) ==
    CASE s.tag = "Raw" -> s.code
      [] s.tag = "Literal" -> s.value
      [] s.tag = "VarDecl" ->
            VarTypeToken(s.var_type) \o " " \o s.name
                \o (IF s.initializer = None THEN ""
                    ELSE " = " \o Generate(s.initializer[1]))
      [] s.tag = "Binary" ->
            LET inner == Generate(s.left) \o " " \o s.operator \o " "
                             \o Generate(s.right)
            IN  IF s.left.tag \in {"Raw", "Literal"}
                   /\ s.right.tag \in {"Raw", "Literal"}
                THEN inner ELSE "(" \o inner \o ")"
      [] s.tag = "Block" -> BlockGenerateFrom(s.block, 1, "")

(* Block::generate: the loop over self.statements, from statement i on,    *)
(* with the String built so far.                                           *)
BlockGenerateFrom(b, i, acc) ==
    IF i > Len(b.statements) THEN acc
    ELSE BlockGenerateFrom(b, i + 1,
            acc \o Repeat("    ", b.indent) \o Generate(b.statements[i]) \o "\n")

BlockGenerate(b) == BlockGenerateFrom(b, 1, "")

Generate(s) ==
    CASE s.tag = "Raw" -> s.code
      [] s.tag = "Literal" -> s.value
      [] s.tag = "VarDecl" ->
            LET var_type == VarTypeToken(s.var_type)
                initializer == IF s.initializer = None THEN ""
                               ELSE " = " \o Generate(s.initializer[1])
            IN  var_type \o " " \o s.name \o initializer
      [] s.tag = "Binary" ->
            "(" \o Generate(s.left) \o " " \o s.operator \o " "
                \o Generate(s.right) \o ")"
      [] s.tag = "Block" -> BlockGenerate(s.block)

-----------------------------------------------------------------------------
(* The Block builder.  Each operation returns the block it leaves; literal *)
(* also tells whether it returned (ok) or panicked.                        *)

BlockStmt(b, s) == [b EXCEPT !.statements = Append(@, s)]

BlockRaw(b, c) == BlockStmt(b, Raw(c))

BlockVarDecl(b, var_type, n, initializer) ==
    BlockStmt(b, VarDecl(var_type, n,
                         IF initializer = None THEN None
                         ELSE Some(initializer[1])))

(* Mutant: the converted statement is pushed before it is examined. *)
BlockLiteral_PushFirst(b, v) ==
    [ok |-> Into(v).tag = "Literal", block |-> BlockStmt(b, Into(v))]

BlockLiteral(b, v) ==
    LET converted == Into(v)
    IN  IF converted.tag = "Literal"
        THEN [ok |-> TRUE, block |-> BlockStmt(b, Literal(converted.value))]
        ELSE [ok |-> FALSE, block |-> b]

BlockBinary(b, left, operator, right) ==
    BlockStmt(b, Binary(Into(left), operator, Into(right)))

-----------------------------------------------------------------------------
(* The Module: dependencies and rendering *)

ModuleDep(m, dependency) ==
    [m EXCEPT !.dependencies = Append(@, dependency)]

(* Mutant: the list goes in front of the dependencies already there. *)
ModuleDeps_Prepends(m, deps) == [m EXCEPT !.dependencies = deps \o @]

ModuleDeps(m, deps) == [m EXCEPT !.dependencies = @ \o deps]

(* [String]::join *)
RECURSIVE JoinFrom(_, _, _, _)
JoinFrom(items, sep, i, acc) ==
    IF i > Len(items) THEN acc
    ELSE JoinFrom(items, sep, i + 1,
                  IF i = 1 THEN items[i] ELSE acc \o sep \o items[i])

Join(items, sep) == JoinFrom(items, sep, 1, "")

(* format!("import {{ {} }} from '{}';\n", imports.join(", "), path) *)
ImportLine(dependency) ==
    "import { " \o Join(dependency.imports, ", ") \o " } from '"
        \o dependency.path \o "';\n"

(* Mutant: a blank line separates the import lines from the body. *)
RECURSIVE GenerateCodeStringFrom_BlankLine(_, _, _)
GenerateCodeStringFrom_BlankLine(m, i, acc) ==
    IF i > Len(m.dependencies)
    THEN (IF acc = "" THEN "" ELSE acc \o "\n") \o BlockGenerate(m.main_block)
    ELSE GenerateCodeStringFrom_BlankLine(m, i + 1,
                                          acc \o ImportLine(m.dependencies[i]))

RECURSIVE GenerateCodeStringFrom(_, _, _)
GenerateCodeStringFrom(m, i, acc) ==
    IF i > Len(m.dependencies) THEN acc \o BlockGenerate(m.main_block)
    ELSE GenerateCodeStringFrom(m, i + 1,
                                acc \o ImportLine(m.dependencies[i]))

GenerateCodeString(m) == GenerateCodeStringFrom(m, 1, "")

-----------------------------------------------------------------------------
(* Outputs.  A sink is what generate_to is handed, or the file generate    *)
(* creates: a Vec<u8> accepts every write; a &mut [u8] and a file accept   *)
(* `room` more bytes and then fail.  `writes` counts the write_all calls   *)
(* made on the sink, `buf` holds the bytes it has taken.                   *)

NoSink == [kind |-> "none", path |-> "", buf |-> "", room |-> 0, writes |-> 0]

VecSink == [kind |-> "vec", path |-> "", buf |-> "", room |-> 0, writes |-> 0]

SliceSink(len) ==
    [kind |-> "slice", path |-> "", buf |-> "", room |-> len, writes |-> 0]

FileSink(path, free) ==
    [kind |-> "file", path |-> path, buf |-> "", room |-> free, writes |-> 0]

MinOf(a, b) == IF a < b THEN a ELSE b

(* Write::write_all: the bytes the sink takes before it fails are kept.    *)
WriteAll(s, bytes) ==
    IF s.kind = "vec"
    THEN [ok |-> TRUE,
          sink |-> [s EXCEPT !.buf = @ \o bytes, !.writes = @ + 1]]
    ELSE LET n == MinOf(Len(bytes), s.room)
         IN  [ok |-> n = Len(bytes),
              sink |-> [s EXCEPT !.buf = @ \o SubSeq(bytes, 1, n),
                                 !.room = @ - n, !.writes = @ + 1]]

(* Mutant: the main block is written before the import lines. *)
RECURSIVE GenerateToFrom_BodyFirst(_, _, _)
GenerateToFrom_BodyFirst(m, i, output) ==
    LET first == IF i = 1 THEN WriteAll(output, BlockGenerate(m.main_block))
                 ELSE [ok |-> TRUE, sink |-> output]
    IN  IF ~first.ok \/ i > Len(m.dependencies) THEN first
        ELSE LET w == WriteAll(first.sink, ImportLine(m.dependencies[i]))
             IN  IF w.ok /\ i < Len(m.dependencies)
                 THEN GenerateToFrom_BodyFirst(m, i + 1, w.sink) ELSE w

(* Mutant: the rendering is assembled first and written once. *)
GenerateTo_SingleWrite(m, output) == WriteAll(output, GenerateCodeString(m))

(* Module::generate_to: one write_all per dependency, then one for the     *)
(* main block; unwrap() panics at the first write that fails.              *)
RECURSIVE GenerateToFrom(_, _, _)
GenerateToFrom(m, i, output) ==
    IF i > Len(m.dependencies)
    THEN WriteAll(output, BlockGenerate(m.main_block))
    ELSE LET w == WriteAll(output, ImportLine(m.dependencies[i]))
         IN  IF w.ok THEN GenerateToFrom(m, i + 1, w.sink) ELSE w

GenerateTo(m, output) == GenerateToFrom(m, 1, output)

(* The path Module::generate writes to. *)
ResolvePath(m, path, is_dir) ==
    IF is_dir THEN path \o "/" \o m.name \o ".js" ELSE path

(* BufWriter::new: the capacity of the buffer between generate and the file *)
BufWriterCapacity == 8192

(* Module::generate after File::create succeeded: one write_all of the     *)
(* whole rendering to a BufWriter.  A rendering shorter than the buffer is *)
(* only buffered: write_all returns Ok and the flush when the writer is    *)
(* dropped ignores its error.  A longer one goes straight to the file and  *)
(* its error reaches unwrap().                                             *)
GenerateFile(m, file) ==
    LET w == WriteAll(file, GenerateCodeString(m))
    IN  IF Len(GenerateCodeString(m)) < BufWriterCapacity
        THEN [ok |-> TRUE, sink |-> w.sink]
        ELSE w

-----------------------------------------------------------------------------
(* Inputs of the operations *)

ModuleNames == {"foo"}

DependencySamples ==
    {DependencyNew(<<"foo">>, "bar"),
     DependencyNew(<<"bar">>, "baz"),
     ImportMacro(<<"foo", "bar", "baz">>, "qux")}

DependencyLists ==
    {<<>>,
     <<DependencyNew(<<"bar">>, "baz")>>,
     <<DependencyNew(<<"foo">>, "bar"), DependencyNew(<<"bar">>, "baz")>>,
     <<ImportMacro(<<"foo", "bar", "baz">>, "qux"),
       DependencyNew(<<"foo">>, "bar")>>}

(* Spec draws one statement per builder operation; SpecBlock draws more. *)
ModuleStatementSamples == {BlockStatement(BlockStmt(BlockNew(1), Raw("x")))}

ModuleVarDeclSamples == {<<"Const", "a", Some(Literal("42"))>>}

ModuleLiteralSamples == {StrValue("s"), StatementValue(Raw("r"))}

ModuleBinarySamples == {<<I32Value(1), "+", I32Value(2)>>}

VarDeclSamples ==
    {<<"Let", "foo", None>>,
     <<"Const", "a", Some(Literal("42"))>>,
     <<"Var", "b", Some(Binary(Literal("1"), "<", Raw("c")))>>}

LiteralSamples ==
    {StrValue("s"), I32Value(-7), StatementValue(Literal("1")),
     StatementValue(Raw("r")),
     StatementValue(VarDecl("Let", "v", None)),
     StatementValue(Binary(Literal("1"), "+", Literal("2"))),
     StatementValue(BlockStatement(BlockNew(0)))}

BinarySamples ==
    {<<I32Value(1), "+", I32Value(2)>>,
     <<StringValue("a"), "===", StatementValue(Raw("b"))>>}

(* A Vec<u8>, and slices that end inside the first import line and right   *)
(* after it.                                                               *)
SinkSamples == {VecSink} \cup {SliceSink(len) : len \in {10, 27}}

(* A directory or a file path; whether File::create succeeds; the bytes    *)
(* the file system can still take.                                         *)
FileSamples ==
    {[path |-> "out", is_dir |-> TRUE, created |-> TRUE, free |-> 500],
     [path |-> "out/m.js", is_dir |-> FALSE, created |-> TRUE, free |-> 30],
     [path |-> "gone/m.js", is_dir |-> FALSE, created |-> FALSE, free |-> 0]}

BlockStatementSamples ==
    {BinaryMacro("*", StatementValue(BinaryMacro("+", I32Value(1), I32Value(2))),
                 I32Value(3)),
     VarMacro("Var", "x", Some(StringValue("it's"))),
     BlockStatement(BlockNew(2))}

IndentSamples == 0 .. MaxIndent

ValueSamples ==
    {I32Value(n) : n \in (-MaxAbs .. MaxAbs)
                         \cup {I32_MIN, I32_MAX, 42, -100, 1000, -2147483647}}
    \cup {StrValue(t) : t \in {"", "foo", "it's", "''"}}
    \cup {StringValue(t) : t \in {"", "bar", "a'b"}}

OperatorSamples == {"+", "!=="}

-----------------------------------------------------------------------------
(* Spec: the Module API.  The main block is reached through Deref, so the  *)
(* Block builder operations apply to module.main_block.                    *)

Init ==
    /\ \E n \in ModuleNames :
          /\ module = ModuleCreate(n)
          /\ call = [op |-> "create", args |-> <<n>>]
    /\ block = BlockNew(0)
    /\ value = I32Value(0)
    /\ statement = None
    /\ pc = "ready"
    /\ code = ""
    /\ first_code = ""
    /\ renders = 0
    /\ sink = NoSink

(* What every construction call on the module leaves behind. *)
Mutated(m, op, args, ok) ==
    /\ module' = m
    /\ call' = [op |-> op, args |-> args]
    /\ pc' = IF ok THEN "ready" ELSE "panicked"
    /\ code' = ""
    /\ first_code' = ""
    /\ renders' = 0
    /\ sink' = NoSink
    /\ UNCHANGED <<block, value, statement>>

RoomForStatement == Len(module.main_block.statements) < MaxStmts

M_dep(dependency) ==
    /\ pc = "ready"
    /\ Len(module.dependencies) < MaxDeps
    /\ Mutated(ModuleDep(module, dependency), "dep", <<dependency>>, TRUE)

M_deps(deps) ==
    /\ pc = "ready"
    /\ Len(module.dependencies) + Len(deps) <= MaxDeps
    /\ Mutated(ModuleDeps(module, deps), "deps", <<deps>>, TRUE)

M_stmt(s) ==
    /\ pc = "ready"
    /\ RoomForStatement
    /\ Mutated([module EXCEPT !.main_block = BlockStmt(@, s)],
               "stmt", <<s>>, TRUE)

M_raw(c) ==
    /\ pc = "ready"
    /\ RoomForStatement
    /\ Mutated([module EXCEPT !.main_block = BlockRaw(@, c)],
               "raw", <<c>>, TRUE)

M_var_decl(var_type, n, initializer) ==
    /\ pc = "ready"
    /\ RoomForStatement
    /\ Mutated([module EXCEPT
                   !.main_block = BlockVarDecl(@, var_type, n, initializer)],
               "var_decl", <<var_type, n, initializer>>, TRUE)

M_literal(v) ==
    /\ pc = "ready"
    /\ RoomForStatement
    /\ LET r == BlockLiteral(module.main_block, v)
       IN  Mutated([module EXCEPT !.main_block = r.block],
                   "literal", <<v>>, r.ok)

M_binary(left, operator, right) ==
    /\ pc = "ready"
    /\ RoomForStatement
    /\ Mutated([module EXCEPT
                   !.main_block = BlockBinary(@, left, operator, right)],
               "binary", <<left, operator, right>>, TRUE)

(* Mutant: rendering drains the statements of the main block. *)
M_generate_code_string_Drains ==
    /\ pc = "ready"
    /\ renders < MaxRenders
    /\ code' = GenerateCodeString(module)
    /\ first_code' = IF renders = 0 THEN code' ELSE first_code
    /\ renders' = renders + 1
    /\ call' = [op |-> "generate_code_string", args |-> <<>>]
    /\ sink' = NoSink
    /\ module' = [module EXCEPT !.main_block.statements = <<>>]
    /\ UNCHANGED <<block, value, statement, pc>>

M_generate_code_string ==
    /\ pc = "ready"
    /\ renders < MaxRenders
    /\ code' = GenerateCodeString(module)
    /\ first_code' = IF renders = 0 THEN code' ELSE first_code
    /\ renders' = renders + 1
    /\ call' = [op |-> "generate_code_string", args |-> <<>>]
    /\ sink' = NoSink
    /\ UNCHANGED <<module, block, value, statement, pc>>

M_generate_to(output) ==
    /\ pc = "ready"
    /\ LET r == GenerateTo(module, output)
       IN  /\ sink' = r.sink
           /\ pc' = IF r.ok THEN "ready" ELSE "panicked"
    /\ call' = [op |-> "generate_to", args |-> <<output.kind>>]
    /\ code' = ""
    /\ first_code' = ""
    /\ renders' = 0
    /\ UNCHANGED <<module, block, value, statement>>

(* Module::generate: File::create(&path).unwrap() panics when the file     *)
(* cannot be created; then the rendering is written to it.                 *)
M_generate(path, is_dir, created, free) ==
    /\ pc = "ready"
    /\ LET file == FileSink(ResolvePath(module, path, is_dir), free)
           r == IF created THEN GenerateFile(module, file)
                ELSE [ok |-> FALSE, sink |-> NoSink]
       IN  /\ sink' = r.sink
           /\ pc' = IF r.ok THEN "ready" ELSE "panicked"
    /\ call' = [op |-> "generate", args |-> <<path, is_dir>>]
    /\ code' = ""
    /\ first_code' = ""
    /\ renders' = 0
    /\ UNCHANGED <<module, block, value, statement>>

Next ==
    \/ \E d \in DependencySamples : M_dep(d)
    \/ \E ds \in DependencyLists : M_deps(ds)
    \/ \E s \in ModuleStatementSamples : M_stmt(s)
    \/ M_raw("foo")
    \/ \E a \in ModuleVarDeclSamples : M_var_decl(a[1], a[2], a[3])
    \/ \E v \in ModuleLiteralSamples : M_literal(v)
    \/ \E a \in ModuleBinarySamples : M_binary(a[1], a[2], a[3])
    \/ M_generate_code_string
    \/ \E output \in SinkSamples : M_generate_to(output)
    \/ \E f \in FileSamples : M_generate(f.path, f.is_dir, f.created, f.free)

Spec == Init /\ [][Next]_vars

-----------------------------------------------------------------------------
(* SpecBlock: the Block API on a block of any indent.  A finished block is *)
(* nested by boxing it into a Statement::Block of a new parent block.      *)

RECURSIVE Nodes(_)
RECURSIVE NodesFrom(_, _)

(* The statements of a block, those of its nested blocks included. *)
NodesFrom(b, i) ==
    IF i > Len(b.statements) THEN 0
    ELSE 1 + (IF b.statements[i].tag = "Block"
              THEN Nodes(b.statements[i].block) ELSE 0)
           + NodesFrom(b, i + 1)

Nodes(b) == NodesFrom(b, 1)

InitBlock ==
    /\ \E indent \in IndentSamples :
          /\ block = BlockNew(indent)
          /\ call = [op |-> "new", args |-> <<indent>>]
    /\ module = ModuleCreate("foo")
    /\ value = I32Value(0)
    /\ statement = None
    /\ pc = "ready"
    /\ code = ""
    /\ first_code = ""
    /\ renders = 0
    /\ sink = NoSink

(* What every construction call on the block leaves behind. *)
Built(b, op, args, ok) ==
    /\ Nodes(b) <= MaxNodes
    /\ block' = b
    /\ call' = [op |-> op, args |-> args]
    /\ pc' = IF ok THEN "ready" ELSE "panicked"
    /\ code' = ""
    /\ UNCHANGED <<module, value, statement, first_code, renders, sink>>

B_stmt(s) ==
    /\ pc = "ready"
    /\ Built(BlockStmt(block, s), "stmt", <<s>>, TRUE)

B_raw(c) ==
    /\ pc = "ready"
    /\ Built(BlockRaw(block, c), "raw", <<c>>, TRUE)

B_var_decl(var_type, n, initializer) ==
    /\ pc = "ready"
    /\ Built(BlockVarDecl(block, var_type, n, initializer),
             "var_decl", <<var_type, n, initializer>>, TRUE)

B_literal(v) ==
    /\ pc = "ready"
    /\ Nodes(block) < MaxNodes
    /\ LET r == BlockLiteral(block, v)
       IN  Built(r.block, "literal", <<v>>, r.ok)

B_binary(left, operator, right) ==
    /\ pc = "ready"
    /\ Built(BlockBinary(block, left, operator, right),
             "binary", <<left, operator, right>>, TRUE)

(* let mut parent = Block::new(indent);                                    *)
(* parent.stmt(Statement::Block(Box::new(block)))                          *)
B_nest(indent) ==
    /\ pc = "ready"
    /\ Built(BlockStmt(BlockNew(indent), BlockStatement(block)),
             "nest", <<indent>>, TRUE)

B_generate ==
    /\ pc = "ready"
    /\ code' = BlockGenerate(block)
    /\ call' = [op |-> "generate", args |-> <<>>]
    /\ UNCHANGED <<module, block, value, statement, pc, first_code, renders,
                   sink>>

NextBlock ==
    \/ \E s \in BlockStatementSamples : B_stmt(s)
    \/ B_raw("foo")
    \/ \E a \in VarDeclSamples : B_var_decl(a[1], a[2], a[3])
    \/ \E v \in LiteralSamples : B_literal(v)
    \/ \E a \in BinarySamples : B_binary(a[1], a[2], a[3])
    \/ \E indent \in IndentSamples : B_nest(indent)
    \/ B_generate

SpecBlock == InitBlock /\ [][NextBlock]_vars

-----------------------------------------------------------------------------
(* SpecStmt: a value is converted or put into a var! declaration, the      *)
(* statement is wrapped into larger statements, and any of them rendered.  *)

RECURSIVE Depth(_)
Depth(s) ==
    CASE s.tag = "VarDecl" ->
            IF s.initializer = None THEN 0 ELSE 1 + Depth(s.initializer[1])
      [] s.tag = "Binary" ->
            1 + (IF Depth(s.left) > Depth(s.right)
                 THEN Depth(s.left) ELSE Depth(s.right))
      [] s.tag = "Block" ->
            IF s.block.statements = <<>> THEN 0
            ELSE 1 + Depth(s.block.statements[1])
      [] OTHER -> 0

InitStmt ==
    /\ value \in ValueSamples
    /\ statement = None
    /\ call = [op |-> "value", args |-> <<>>]
    /\ module = ModuleCreate("foo")
    /\ block = BlockNew(0)
    /\ pc = "ready"
    /\ code = ""
    /\ first_code = ""
    /\ renders = 0
    /\ sink = NoSink

Constructed(s, op, args) ==
    /\ Depth(s) <= MaxDepth
    /\ statement' = Some(s)
    /\ call' = [op |-> op, args |-> args]
    /\ code' = ""
    /\ UNCHANGED <<module, block, value, pc, first_code, renders, sink>>

(* value.into() *)
S_into ==
    /\ statement = None
    /\ Constructed(Into(value), "into", <<value>>)

(* var!(let|const|var name = value) and var!(let|var name): there is no    *)
(* const arm without an initializer.                                       *)
S_var_macro(var_type, n, with_initializer) ==
    /\ statement = None
    /\ var_type = "Const" => with_initializer
    /\ Constructed(VarMacro(var_type, n,
                            IF with_initializer THEN Some(value) ELSE None),
                   "var_macro", <<var_type, n, with_initializer>>)

(* Statement::VarDecl { var_type, name, initializer: Some(statement.boxed()) } *)
S_var_decl(var_type, n) ==
    /\ statement # None
    /\ Constructed(VarDecl(var_type, n, Some(statement[1])),
                   "var_decl", <<var_type, n>>)

(* binary!(op statement, other) and binary!(op other, statement) *)
S_binary_macro(operator, other, statement_left) ==
    /\ statement # None
    /\ Constructed(IF statement_left
                   THEN BinaryMacro(operator, StatementValue(statement[1]), other)
                   ELSE BinaryMacro(operator, other, StatementValue(statement[1])),
                   "binary_macro", <<operator, other, statement_left>>)

(* Statement::Block(Box::new(b)) with b = Block::new(indent) and statement *)
S_block(indent) ==
    /\ statement # None
    /\ Constructed(BlockStatement(BlockStmt(BlockNew(indent), statement[1])),
                   "block", <<indent>>)

S_generate ==
    /\ statement # None
    /\ code' = Generate(statement[1])
    /\ call' = [op |-> "generate", args |-> <<>>]
    /\ UNCHANGED <<module, block, value, statement, pc, first_code, renders,
                   sink>>

NextStmt ==
    \/ S_into
    \/ \E var_type \in VarType, with_initializer \in BOOLEAN :
          S_var_macro(var_type, "foo", with_initializer)
    \/ \E var_type \in VarType : S_var_decl(var_type, "bar")
    \/ \E operator \in OperatorSamples, statement_left \in BOOLEAN :
          S_binary_macro(operator, I32Value(2), statement_left)
    \/ \E indent \in {0, 1} : S_block(indent)
    \/ S_generate

SpecStmt == InitStmt /\ [][NextStmt]_vars

-----------------------------------------------------------------------------
(* Helpers of the properties *)

IsPrefix(p, t) == Len(p) <= Len(t) /\ SubSeq(t, 1, Len(p)) = p

RECURSIVE Spaces(_)
Spaces(n) == IF n = 0 THEN "" ELSE " " \o Spaces(n - 1)

RECURSIVE Flatten(_)
Flatten(tokens) ==
    IF tokens = <<>> THEN "" ELSE Head(tokens) \o Flatten(Tail(tokens))

RECURSIVE LeadingSpaces(_)
LeadingSpaces(t) ==
    IF t # "" /\ SubSeq(t, 1, 1) = " "
    THEN 1 + LeadingSpaces(SubSeq(t, 2, Len(t))) ELSE 0

(* The text before the first newline of t, and the text after it. *)
RECURSIVE FirstLine(_)
FirstLine(t) ==
    IF t = "" \/ SubSeq(t, 1, 1) = "\n" THEN ""
    ELSE SubSeq(t, 1, 1) \o FirstLine(SubSeq(t, 2, Len(t)))

AfterFirstLine(t) == SubSeq(t, Len(FirstLine(t)) + 2, Len(t))

RECURSIVE Line(_, _)
Line(t, j) == IF j = 1 THEN FirstLine(t) ELSE Line(AfterFirstLine(t), j - 1)

-----------------------------------------------------------------------------
(* C1: generate_code_string returns, for each dependency in the order it   *)
(* was appended, the line "import { <imports joined by ', '> } from        *)
(* '<path>';" and a newline, then the rendering of the main block, with    *)
(* nothing between the import lines and the body; the import lines come    *)
(* first whatever the order of the dep and statement calls, and a module   *)
(* with no statements renders only its import lines.                       *)

RECURSIVE RefJoin(_)
RefJoin(items) ==
    IF items = <<>> THEN ""
    ELSE IF Len(items) = 1 THEN items[1]
    ELSE Head(items) \o ", " \o RefJoin(Tail(items))

RECURSIVE RefImports(_)
RefImports(deps) ==
    IF deps = <<>> THEN ""
    ELSE Flatten(<<"import { ", RefJoin(Head(deps).imports), " } from '",
                   Head(deps).path, "';", "\n">>)
         \o RefImports(Tail(deps))

C1_ImportsThenBody ==
    call.op = "generate_code_string" =>
        /\ code = RefImports(module.dependencies)
                      \o BlockGenerate(module.main_block)
        /\ module.main_block.statements = <<>> =>
              code = RefImports(module.dependencies)
        /\ (/\ module.dependencies = <<DependencyNew(<<"foo">>, "bar"),
                                       DependencyNew(<<"bar">>, "baz")>>
            /\ module.main_block.statements = <<>>) =>
              code = "import { foo } from 'bar';\nimport { bar } from 'baz';\n"
        /\ (/\ module.dependencies = <<DependencyNew(<<"foo">>, "bar")>>
            /\ module.main_block.statements = <<Raw("foo")>>) =>
              code = "import { foo } from 'bar';\nfoo\n"
        /\ (/\ module.dependencies =
                  <<ImportMacro(<<"foo", "bar", "baz">>, "qux")>>
            /\ module.main_block.statements = <<>>) =>
              code = "import { foo, bar, baz } from 'qux';\n"

C1_Witness ==
    /\ call.op = "generate_code_string"
    /\ Len(module.dependencies) = 2
    /\ module.main_block.statements # <<>>
    /\ code # ""

-----------------------------------------------------------------------------
(* C10: the bytes generate_to delivers to a sink that accepts every write  *)
(* are the bytes of the string generate_code_string returns for the same   *)
(* module.                                                                 *)

C10_SameBytes ==
    (call.op = "generate_to" /\ sink.kind = "vec") =>
        /\ pc = "ready"
        /\ sink.buf = GenerateCodeString(module)

C10_Witness ==
    /\ call.op = "generate_to"
    /\ sink.kind = "vec"
    /\ Len(module.dependencies) = 2
    /\ module.main_block.statements # <<>>

-----------------------------------------------------------------------------
(* C7, as claimed: a generation call that writes to a sink leaves it empty *)
(* or holding the complete rendering, never a proper non-empty prefix.     *)

C7_AllOrNothing ==
    (call.op \in {"generate_to", "generate"} /\ sink.kind # "none") =>
        \/ sink.buf = ""
        \/ sink.buf = GenerateCodeString(module)

(* C7, amended: generate_to makes one write_all per dependency and then    *)
(* one for the main block, generate makes one write_all of the complete    *)
(* rendering; the sink then holds a prefix of the rendering: all of it     *)
(* when every write succeeded, and what fitted when a write failed.        *)

C7_PrefixWritten ==
    LET full == GenerateCodeString(module)
    IN  /\ call.op = "generate_to" =>
              /\ IsPrefix(sink.buf, full)
              /\ pc = "ready" =>
                    /\ sink.buf = full
                    /\ sink.writes = Len(module.dependencies) + 1
              /\ pc = "panicked" =>
                    /\ sink.buf # full
                    /\ sink.room = 0
                    /\ sink.writes <= Len(module.dependencies) + 1
        /\ (call.op = "generate" /\ sink.kind = "file") =>
              /\ IsPrefix(sink.buf, full)
              /\ sink.writes = 1
              /\ sink.buf = full \/ sink.room = 0

C7_Witness ==
    /\ call.op = "generate_to"
    /\ pc = "panicked"
    /\ sink.buf = "import { foo } from 'bar';\n"
    /\ module.main_block.statements # <<>>

-----------------------------------------------------------------------------
(* C4: a render call leaves the module (name, dependencies, main block)    *)
(* unchanged, and generate_code_string calls made in a row return the same *)
(* string.                                                                 *)

C4_RenderIsPure ==
    /\ [][call'.op \in {"generate_code_string", "generate_to", "generate"}
            => module' = module]_vars
    /\ [](renders >= 2 => code = first_code)

C4_Witness ==
    /\ renders = 2
    /\ module.dependencies # <<>>
    /\ module.main_block.statements # <<>>

-----------------------------------------------------------------------------
(* C9: each stmt, raw, var_decl, binary or successful literal call adds    *)
(* exactly one statement at the end of the main block and leaves the       *)
(* earlier statements, the indent, the dependencies and the name alone;    *)
(* dep adds one dependency at the end, deps adds its list's elements at    *)
(* the end in list order, as a dep call on each in turn would, and both    *)
(* leave the main block and the name alone.                                *)

RECURSIVE DepEach(_, _)
DepEach(m, deps) ==
    IF deps = <<>> THEN m
    ELSE DepEach([m EXCEPT !.dependencies = Append(@, Head(deps))], Tail(deps))

AppendedStatement(c) ==
    CASE c.op = "stmt" -> c.args[1]
      [] c.op = "raw" -> Raw(c.args[1])
      [] c.op = "var_decl" -> VarDecl(c.args[1], c.args[2], c.args[3])
      [] c.op = "binary" -> Binary(Into(c.args[1]), c.args[2], Into(c.args[3]))
      [] c.op = "literal" -> Into(c.args[1])

C9_AppendOnly ==
    [][LET old == module.main_block.statements
           new == module'.main_block.statements
           old_deps == module.dependencies
           new_deps == module'.dependencies
       IN  /\ (\/ call'.op \in {"stmt", "raw", "var_decl", "binary"}
               \/ call'.op = "literal" /\ pc' = "ready") =>
                 /\ Len(new) = Len(old) + 1
                 /\ SubSeq(new, 1, Len(old)) = old
                 /\ new[Len(new)] = AppendedStatement(call')
                 /\ module'.main_block.indent = module.main_block.indent
                 /\ new_deps = old_deps
                 /\ module'.name = module.name
           /\ call'.op = "dep" =>
                 /\ Len(new_deps) = Len(old_deps) + 1
                 /\ SubSeq(new_deps, 1, Len(old_deps)) = old_deps
                 /\ new_deps[Len(new_deps)] = call'.args[1]
                 /\ module'.main_block = module.main_block
                 /\ module'.name = module.name
           /\ call'.op = "deps" =>
                 /\ Len(new_deps) = Len(old_deps) + Len(call'.args[1])
                 /\ SubSeq(new_deps, 1, Len(old_deps)) = old_deps
                 /\ \A i \in 1 .. Len(call'.args[1]) :
                       new_deps[Len(old_deps) + i] = call'.args[1][i]
                 /\ module' = DepEach(module, call'.args[1])
                 /\ module'.main_block = module.main_block
                 /\ module'.name = module.name]_vars

C9_Witness ==
    /\ call.op = "deps"
    /\ Len(call.args[1]) = 2
    /\ Len(module.dependencies) = 2
    /\ module.main_block.statements # <<>>

-----------------------------------------------------------------------------
(* C2: Block::generate returns, for a block of indent n, the concatenation *)
(* in insertion order of 4n spaces, the statement's rendering and one      *)
(* newline; an empty block renders to "", and a block of indent 0 holding  *)
(* only Raw("foo") renders to "foo" and a newline.                         *)

RECURSIVE RefBlockLines(_, _)
RefBlockLines(indent, statements) ==
    IF statements = <<>> THEN ""
    ELSE Flatten(<<Spaces(4 * indent), Generate(Head(statements)), "\n">>)
         \o RefBlockLines(indent, Tail(statements))

C2_BlockLines ==
    call.op = "generate" =>
        /\ code = RefBlockLines(block.indent, block.statements)
        /\ block.statements = <<>> => code = ""
        /\ block = [indent |-> 0, statements |-> <<Raw("foo")>>] =>
              code = "foo\n"

C2_Witness ==
    /\ call.op = "generate"
    /\ block.indent = 1
    /\ Len(block.statements) = 2
    /\ block.statements[1].tag = "Raw"
    /\ block.statements[2].tag = "VarDecl"

-----------------------------------------------------------------------------
(* C5: literal(v) appends exactly the Literal v converts to; when v is a   *)
(* statement of another variant (Raw, VarDecl, Binary, Block) it panics    *)
(* and the block holds what it held before the call.                       *)

C5_LiteralOrPanic ==
    [][call'.op = "literal" =>
          LET v == call'.args[1]
          IN  IF v.kind = "Statement" /\ v.stmt.tag # "Literal"
              THEN pc' = "panicked" /\ block' = block
              ELSE /\ pc' = "ready"
                   /\ Into(v).tag = "Literal"
                   /\ block'.statements = Append(block.statements, Into(v))
                   /\ block'.indent = block.indent]_vars

C5_Witness ==
    /\ call.op = "literal"
    /\ pc = "panicked"
    /\ call.args[1].kind = "Statement"
    /\ call.args[1].stmt.tag = "Binary"
    /\ block.statements # <<>>

-----------------------------------------------------------------------------
(* C8: when a block is nested in a parent block, every line emitted for    *)
(* the nested block's statements is indented by 4 spaces times the nested  *)
(* block's own indent, whatever the parent's indent.  Stated for a nested  *)
(* block that is the parent's first statement and holds one-line           *)
(* statements, so that line j of the rendering is the nested block's       *)
(* statement j.                                                            *)

C8_NestedIndentOnly ==
    (/\ call.op = "generate"
     /\ block.statements # <<>>
     /\ block.statements[1].tag = "Block"
     /\ \A j \in 1 .. Len(block.statements[1].block.statements) :
           block.statements[1].block.statements[j].tag # "Block") =>
        \A j \in 1 .. Len(block.statements[1].block.statements) :
            LeadingSpaces(Line(code, j))
                = 4 * block.statements[1].block.indent

-----------------------------------------------------------------------------
(* C3: Statement::generate renders every statement tree, as the structural *)
(* recursion says: Raw and Literal to their text; VarDecl to the keyword,  *)
(* a space and the name, then " = " and the initializer's rendering when   *)
(* there is one; Binary to "(", left, " ", operator, " ", right, ")", so   *)
(* always in one pair of parentheses; Block to its block's rendering.      *)

RECURSIVE Tokens(_)
Tokens(s) ==
    CASE s.tag \in {"Raw"} -> <<s.code>>
      [] s.tag = "Literal" -> <<s.value>>
      [] s.tag = "VarDecl" ->
            <<CASE s.var_type = "Let" -> "let"
                [] s.var_type = "Const" -> "const"
                [] s.var_type = "Var" -> "var",
              " ", s.name>>
            \o (IF Len(s.initializer) = 1
                THEN <<" = ">> \o Tokens(s.initializer[1]) ELSE <<>>)
      [] s.tag = "Binary" ->
            <<"(">> \o Tokens(s.left) \o <<" ", s.operator, " ">>
                \o Tokens(s.right) \o <<")">>
      [] s.tag = "Block" ->
            <<RefBlockLines(s.block.indent, s.block.statements)>>

-----------------------------------------------------------------------------
(* C6: a text value t converts to the Literal 't' with t copied as it is,  *)
(* embedded quotes included; a 32-bit integer n converts to the Literal of *)
(* its canonical decimal string ('-' first for a negative n, no leading    *)
(* zeros); so var!(let foo = 42) renders to "let foo = 42".                *)

DigitValue(c) == CHOOSE d \in 0 .. 9 : Digit(d) = c

IsDigits(t) ==
    /\ t # ""
    /\ \A i \in 1 .. Len(t) :
          \E d \in 0 .. 9 : SubSeq(t, i, i) = SubSeq("0123456789", d + 1, d + 1)

IsCanonicalDecimal(t) ==
    LET digits == IF t # "" /\ SubSeq(t, 1, 1) = "-"
                  THEN SubSeq(t, 2, Len(t)) ELSE t
    IN  /\ IsDigits(digits)
        /\ SubSeq(digits, 1, 1) = "0" => t = "0"

(* The integer a decimal string denotes, accumulated on the side of its    *)
(* sign so that i32::MIN is reached without leaving 32 bits.               *)
RECURSIVE ParseDigits(_, _, _)
ParseDigits(t, sign, acc) ==
    IF t = "" THEN acc
    ELSE ParseDigits(SubSeq(t, 2, Len(t)), sign,
                     10 * acc + sign * DigitValue(SubSeq(t, 1, 1)))

ParseDecimal(t) ==
    IF SubSeq(t, 1, 1) = "-" THEN ParseDigits(SubSeq(t, 2, Len(t)), -1, 0)
    ELSE ParseDigits(t, 1, 0)

C6_LiteralForms ==
    /\ call.op = "into" =>
          LET s == statement[1]
          IN  /\ s.tag = "Literal"
              /\ value.kind \in {"str", "String"} =>
                    /\ Len(s.value) = Len(value.text) + 2
                    /\ SubSeq(s.value, 1, 1) = "'"
                    /\ SubSeq(s.value, 2, Len(value.text) + 1) = value.text
                    /\ SubSeq(s.value, Len(s.value), Len(s.value)) = "'"
              /\ value.kind = "i32" =>
                    /\ IsCanonicalDecimal(s.value)
                    /\ ParseDecimal(s.value) = value.n
                    /\ (SubSeq(s.value, 1, 1) = "-") = (value.n < 0)
              /\ value = I32Value(42) => s.value = "42"
              /\ value = I32Value(I32_MIN) => s.value = "-2147483648"
              /\ value = StrValue("it's") => Len(s.value) = 6
    /\ (/\ call.op = "generate"
        /\ value = I32Value(42)
        /\ statement[1].tag = "VarDecl"
        /\ statement[1].var_type = "Let"
        /\ statement[1].name = "foo"
        /\ statement[1].initializer # None
        /\ statement[1].initializer[1].tag = "Literal") =>
          code = "let foo = 42"

C6_Witness ==
    /\ call.op = "into"
    /\ value = I32Value(I32_MIN)
    /\ statement # None

=============================================================================
